---- MODULE Spec2Model ----
(***************************************************************************)
(* Model of check_sensitive_info.py: the five regular-expression detectors, *)
(* the first-match decision loop check_sensitive_info, and main, the hook   *)
(* entry point that reads one JSON document and writes one JSON response.   *)
(*                                                                          *)
(* A text (a Python str) is the sequence of its Unicode code points:        *)
(* "pwd: x" is <<112, 119, 100, 58, 32, 120>>.  S("pwd: x") builds that     *)
(* sequence from a string of printable ASCII characters.                    *)
(* A regular expression is a sequence of items, each a character class      *)
(* (a set of code points, possibly negated) with a repetition range.  Every *)
(* pattern of the source is such a concatenation.                           *)
(***************************************************************************)
EXTENDS Integers, Sequences, FiniteSets, TLC

(***************************************************************************)
(* Code points                                                              *)
(***************************************************************************)
\* the printable ASCII characters: code points 32 .. 95 and 97 .. 126 in order
\* (96, the grave accent, cannot be written in a string of this module)
asciiLow == " !\"#$%&'()*+,-./0123456789:;<=>?@ABCDEFGHIJKLMNOPQRSTUVWXYZ[\\]^_"
asciiHigh == "abcdefghijklmnopqrstuvwxyz{|}~"

\* ord(c) of a one-character string
Ord == [c \in {SubSeq(asciiLow, j, j) : j \in 1..Len(asciiLow)}
               \cup {SubSeq(asciiHigh, j, j) : j \in 1..Len(asciiHigh)} |->
          IF \E j \in 1..Len(asciiLow) : SubSeq(asciiLow, j, j) = c
          THEN 31 + (CHOOSE j \in 1..Len(asciiLow) : SubSeq(asciiLow, j, j) = c)
          ELSE 96 + (CHOOSE j \in 1..Len(asciiHigh) : SubSeq(asciiHigh, j, j) = c)]

\* the text of an ASCII string
S(w) == [k \in 1..Len(w) |-> Ord[SubSeq(w, k, k)]]

\* the code points of a class written as a string, S("_-") is {95, 45}
Set(w) == {Ord[SubSeq(w, k, k)] : k \in 1..Len(w)}

Lower == 97..122    \* a-z
Upper == 65..90     \* A-Z
Digit == 48..57     \* 0-9

\* \s of a str pattern: every code point c with chr(c).isspace()
Space == {9, 10, 11, 12, 13, 28, 29, 30, 31, 32, 133, 160, 5760}
            \cup (8192..8202) \cup {8232, 8233, 8239, 8287, 12288}

Quote == Set("\"'")      \* ["']
Assign == Set(":=")      \* [:=]

\* [A-Za-z0-9_\-]
KeyChar == Upper \cup Lower \cup Digit \cup Set("_-")

\* the two-character labels U+5BC6 U+78BC ("password") and U+767B U+5165
\* ("login") of the patterns
MiMa == <<23494, 30908>>
DengRu == <<30331, 20837>>

(***************************************************************************)
(* Items: class, negation, minimum and maximum repetitions (max = -1 is     *)
(* "no upper limit")                                                        *)
(***************************************************************************)
Item(neg, set, min, max) == [neg |-> neg, set |-> set, min |-> min, max |-> max]

One(C)         == Item(FALSE, C, 1, 1)
Opt(C)         == Item(FALSE, C, 0, 1)
Star(C)        == Item(FALSE, C, 0, -1)
Plus(C)        == Item(FALSE, C, 1, -1)
AtLeast(C, n)  == Item(FALSE, C, n, -1)
Exactly(C, n)  == Item(FALSE, C, n, n)
NotAtLeast(C, n) == Item(TRUE, C, n, -1)
NotStar(C)     == Item(TRUE, C, 0, -1)

\* a literal text, case-sensitive
Lit(t) == [k \in 1..Len(t) |-> One({t[k]})]

\* a lower-case word spelled [Pp][Aa][Ss]...: every letter in either case
AnyCase(w) == [k \in 1..Len(w) |-> One({Ord[SubSeq(w, k, k)],
                                        Ord[SubSeq(w, k, k)] - 32})]

(***************************************************************************)
(* re.search: is there a position where the pattern matches                 *)
(***************************************************************************)
InClass(c, it) == (c \in it.set) # it.neg

\* number of characters from pos on that are in the item's class, counted
\* up to the item's maximum
RECURSIVE RunLen(_, _, _, _)
RunLen(it, text, pos, n) ==
    IF pos + n > Len(text) THEN n
    ELSE IF it.max # -1 /\ n >= it.max THEN n
    ELSE IF InClass(text[pos + n], it)
         THEN RunLen(it, text, pos, n + 1)
         ELSE n

RECURSIVE MatchAt(_, _, _, _)
MatchAt(re, k, text, pos) ==
    IF k > Len(re) THEN TRUE
    ELSE LET r == RunLen(re[k], text, pos, 0)
         IN  /\ r >= re[k].min
             /\ \E n \in re[k].min..r : MatchAt(re, k + 1, text, pos + n)

re_search(re, text) == \E pos \in 1..(Len(text) + 1) : MatchAt(re, 1, text, pos)

(***************************************************************************)
(* detect_api_key                                                           *)
(***************************************************************************)
api_key_patterns == <<
    \* [Aa][Pp][Ii][_-]?[Kk][Ee][Yy]\s*[:=]\s*["']?([A-Za-z0-9_\-]{20,})["']?
    AnyCase("api") \o <<Opt(Set("_-"))>> \o AnyCase("key")
        \o <<Star(Space), One(Assign), Star(Space), Opt(Quote),
             AtLeast(KeyChar, 20), Opt(Quote)>>,
    \* [Aa][Pp][Ii][_-]?[Kk][Ee][Yy]\s+([A-Za-z0-9_\-]{20,})
    AnyCase("api") \o <<Opt(Set("_-"))>> \o AnyCase("key")
        \o <<Plus(Space), AtLeast(KeyChar, 20)>>,
    \* sk-[A-Za-z0-9]{32,}
    Lit(S("sk-")) \o <<AtLeast(Upper \cup Lower \cup Digit, 32)>>,
    \* AIza[0-9A-Za-z_-]{35}
    Lit(S("AIza")) \o <<Exactly(Digit \cup Upper \cup Lower \cup Set("_-"), 35)>>,
    \* AKIA[0-9A-Z]{16}
    Lit(S("AKIA")) \o <<Exactly(Digit \cup Upper, 16)>>,
    \* [0-9a-zA-Z/+]{40}
    <<Exactly(Digit \cup Lower \cup Upper \cup Set("/+"), 40)>>
  >>

detect_api_key(text) ==
    \E k \in 1..Len(api_key_patterns) : re_search(api_key_patterns[k], text)

(***************************************************************************)
(* detect_password                                                          *)
(***************************************************************************)
\* variant: the value must have 8 characters
PasswordValue_long == <<Star(Space), One(Assign), Star(Space), Opt(Quote),
                        NotAtLeast(Space \cup Quote, 8), Opt(Quote)>>

\* \s*[:=]\s*["']?([^\s"']{6,})["']?
PasswordValue == <<Star(Space), One(Assign), Star(Space), Opt(Quote),
                   NotAtLeast(Space \cup Quote, 6), Opt(Quote)>>

password_patterns == <<
    \* [Pp][Aa][Ss][Ss][Ww][Oo][Rr][Dd] ...
    AnyCase("password") \o PasswordValue,
    \* [Pp][Ww][Dd] ...
    AnyCase("pwd") \o PasswordValue,
    \* [Pp]ass ...
    AnyCase("p") \o Lit(S("ass")) \o PasswordValue,
    \* U+5BC6 U+78BC ...
    Lit(MiMa) \o PasswordValue
  >>

detect_password(text) ==
    \E k \in 1..Len(password_patterns) : re_search(password_patterns[k], text)

(***************************************************************************)
(* detect_secret_key                                                        *)
(***************************************************************************)
\* \s*[:=]\s*["']?([A-Za-z0-9_\-]{n,})["']?
KeyValue(n) == <<Star(Space), One(Assign), Star(Space), Opt(Quote),
                 AtLeast(KeyChar, n), Opt(Quote)>>

\* variant: the token pattern takes the minimum length of the secret patterns
secret_key_patterns_token16 == <<
    AnyCase("secret") \o KeyValue(16),
    AnyCase("secret") \o <<Opt(Set("_-"))>> \o AnyCase("key") \o KeyValue(16),
    AnyCase("token") \o KeyValue(16)
  >>

secret_key_patterns == <<
    \* [Ss][Ee][Cc][Rr][Ee][Tt] ... {16,}
    AnyCase("secret") \o KeyValue(16),
    \* [Ss][Ee][Cc][Rr][Ee][Tt][_-]?[Kk][Ee][Yy] ... {16,}
    AnyCase("secret") \o <<Opt(Set("_-"))>> \o AnyCase("key") \o KeyValue(16),
    \* [Tt][Oo][Kk][Ee][Nn] ... {20,}
    AnyCase("token") \o KeyValue(20)
  >>

detect_secret_key(text) ==
    \E k \in 1..Len(secret_key_patterns) : re_search(secret_key_patterns[k], text)

(***************************************************************************)
(* detect_credentials (re.DOTALL: the dot matches every character)          *)
(***************************************************************************)
\* \s*[:=].*<password label>\s*[:=]
ThenPassword(label) == <<Star(Space), One(Assign), NotStar({})>>
                          \o label \o <<Star(Space), One(Assign)>>

credentials_patterns == <<
    \* [Uu][Ss][Ee][Rr][Nn][Aa][Mm][Ee]\s*[:=].*[Pp][Aa][Ss][Ss][Ww][Oo][Rr][Dd]\s*[:=]
    AnyCase("username") \o ThenPassword(AnyCase("password")),
    \* [Aa][Cc][Cc][Oo][Uu][Nn][Tt]\s*[:=].*[Pp][Aa][Ss][Ss][Ww][Oo][Rr][Dd]\s*[:=]
    AnyCase("account") \o ThenPassword(AnyCase("password")),
    \* U+767B U+5165 \s*[:=].* U+5BC6 U+78BC \s*[:=]
    Lit(DengRu) \o ThenPassword(Lit(MiMa))
  >>

detect_credentials(text) ==
    \E k \in 1..Len(credentials_patterns) : re_search(credentials_patterns[k], text)

(***************************************************************************)
(* detect_email_password                                                    *)
(***************************************************************************)
\* [a-zA-Z0-9._%+-]+@[a-zA-Z0-9.-]+\.[a-zA-Z]{2,}
email_pattern ==
    <<Plus(Lower \cup Upper \cup Digit \cup Set("._%+-")),
      One(Set("@")),
      Plus(Lower \cup Upper \cup Digit \cup Set(".-")),
      One(Set(".")),
      AtLeast(Lower \cup Upper, 2)>>

\* [Pp][Aa][Ss][Ss][Ww][Oo][Rr][Dd]\s*[:=]\s*["']?([^\s"']{6,})["']?
password_pattern ==
    AnyCase("password")
        \o <<Star(Space), One(Assign), Star(Space), Opt(Quote),
             NotAtLeast(Space \cup Quote, 6), Opt(Quote)>>

detect_email_password(text) ==
    re_search(email_pattern, text) /\ re_search(password_pattern, text)

(***************************************************************************)
(* The texts the prompt is drawn from                                       *)
(***************************************************************************)
\* largest number of white space characters put around an assignment sign
MaxPad == 1
\* how far above a pattern's minimum length the drawn values go
MaxOver == 1

Rep(c, n) == [k \in 1..n |-> c]

\* lengths around a pattern's minimum length m
Around(m) == (m - 1)..(m + MaxOver)

Labels == {S("password"), S("PASSWORD"), S("PassWord"), S("pwd"), S("pWD"),
           S("pass"), S("Pass"), S("PASS"), S("pAsS"), S("passwd"), MiMa,
           S("secret"), S("SeCrEt"), S("secret_key"), S("SECRET-KEY"),
           S("secretkey"), S("secret key"), S("token"), S("TOKEN"),
           S("api_key"), S("API-KEY"), S("apikey"), S("api key")}

Pads == {Rep(32, n) : n \in 0..MaxPad} \cup {Rep(10, n) : n \in 1..MaxPad}
Signs == {S(":"), S("="), <<>>}
Quotes == {<<>>, S("\""), S("'")}
ValueChars == Set("a!")
ValueLens == Around(6) \cup Around(16) \cup Around(20)

\* label, white space, sign, white space, opening quote, value, closing quote
Labelled == { l \o p \o g \o p \o q \o Rep(c, n) \o q :
                l \in Labels, p \in Pads, g \in Signs, q \in Quotes,
                c \in ValueChars, n \in ValueLens }

\* vendor keys and long runs
Tokens ==
    {S("sk-") \o Rep(97, n) : n \in Around(32)}
    \cup {S("AIza") \o Rep(c, n) : c \in Set("a_"), n \in Around(35)}
    \cup {S("AKIA") \o Rep(c, n) : c \in Set("Aa"), n \in Around(16)}
    \cup {Rep(c, n) : c \in Set("a+_"), n \in Around(40)}

\* something before a password assignment: an e-mail address, an account
Before == {S("a@b.com "), S("a@b.c "), S("a.b "), S("username: bob "),
           S("USERNAME=bob") \o <<10>>, S("account : x "), S("user bob "),
           DengRu \o S(":x ")}

Paired == { b \o l \o S(":") \o p \o Rep(97, n) :
              b \in Before, l \in {S("password"), S("Password"), S("pwd"), MiMa},
              p \in Pads, n \in Around(6) }

Examples == {S("api_key: abcdefghijklmnopqrst1234"),
             S("password: hunter22"),
             S("my email is a@b.com and password: abcdef"),
             S("username: bob password: hunter2"),
             S("Let's refactor the login module"),
             S("hello")}

Texts == Labelled \cup Tokens \cup Paired \cup Examples

(***************************************************************************)
(* Python values: what json.loads returns and what the prompt can be        *)
(***************************************************************************)
PyStr(t)  == [type |-> "str", val |-> t]
PyInt(n)  == [type |-> "int", val |-> n]
PyBool(b) == [type |-> "bool", val |-> b]
PyNone    == [type |-> "NoneType", val |-> 0]
PyList(l) == [type |-> "list", val |-> l]
PyDict(d) == [type |-> "dict", val |-> d]

EmptyDict == [k \in {} |-> PyNone]

\* variant: every str is truthy, the empty one too
Truthy_anyStr(v) ==
    CASE v.type = "str"      -> TRUE
      [] v.type = "int"      -> v.val # 0
      [] v.type = "bool"     -> v.val
      [] v.type = "NoneType" -> FALSE
      [] v.type = "list"     -> Len(v.val) > 0
      [] v.type = "dict"     -> DOMAIN v.val # {}

\* bool(v), the truth value that "not prompt" negates
Truthy(v) ==
    CASE v.type = "str"      -> Len(v.val) > 0
      [] v.type = "int"      -> v.val # 0
      [] v.type = "bool"     -> v.val
      [] v.type = "NoneType" -> FALSE
      [] v.type = "list"     -> Len(v.val) > 0
      [] v.type = "dict"     -> DOMAIN v.val # {}

\* data.get(key, default) of a dict
dict_get(d, key, default) == IF key \in DOMAIN d.val THEN d.val[key] ELSE default

(***************************************************************************)
(* check_sensitive_info                                                     *)
(***************************************************************************)
\* the five warnings of the checks list, by an English rendering of each
\* (source lines 88 to 92)
WarnApiKey        == "API key detected, do not include API keys in the prompt"
WarnPassword      == "password detected, do not include passwords in the prompt"
WarnSecretKey     == "secret key or token detected, do not include it in the prompt"
WarnCredentials   == "account and password detected, do not include them in the prompt"
WarnEmailPassword == "e-mail and password detected, do not include them in the prompt"

\* variant: the credentials check listed before the password check
checks_credentialsFirst ==
          << <<"detect_api_key", WarnApiKey>>,
             <<"detect_credentials", WarnCredentials>>,
             <<"detect_password", WarnPassword>>,
             <<"detect_secret_key", WarnSecretKey>>,
             <<"detect_email_password", WarnEmailPassword>> >>

checks == << <<"detect_api_key", WarnApiKey>>,
             <<"detect_password", WarnPassword>>,
             <<"detect_secret_key", WarnSecretKey>>,
             <<"detect_credentials", WarnCredentials>>,
             <<"detect_email_password", WarnEmailPassword>> >>

\* check_func(prompt) for the function named f
Call(f, text) ==
    CASE f = "detect_api_key"        -> detect_api_key(text)
      [] f = "detect_password"       -> detect_password(text)
      [] f = "detect_secret_key"     -> detect_secret_key(text)
      [] f = "detect_credentials"    -> detect_credentials(text)
      [] f = "detect_email_password" -> detect_email_password(text)

\* an exception: its class and str(e)
Exc(type, text) == [type |-> type, text |-> text]
NoExc == Exc("none", "")

\* what re.search raises on a prompt that is not a str
SearchTypeError(v) ==
    Exc("TypeError", "expected string or bytes-like object, got '" \o v.type \o "'")

\* the for loop from its k-th iteration on; called is the list of the
\* detectors called so far.  re.search raises TypeError on a prompt that is
\* not a str, in the first detector called.
RECURSIVE CheckFrom(_, _, _)
CheckFrom(prompt, k, called) ==
    IF k > Len(checks)
    THEN [raised |-> NoExc, has_sensitive |-> FALSE, warning_msg |-> "",
          called |-> called]
    ELSE IF prompt.type # "str"
    THEN [raised |-> SearchTypeError(prompt), has_sensitive |-> FALSE, warning_msg |-> "",
          called |-> Append(called, checks[k][1])]
    ELSE IF Call(checks[k][1], prompt.val)
    THEN [raised |-> NoExc, has_sensitive |-> TRUE, warning_msg |-> checks[k][2],
          called |-> Append(called, checks[k][1])]
    ELSE CheckFrom(prompt, k + 1, Append(called, checks[k][1]))

check_sensitive_info(prompt) == CheckFrom(prompt, 1, <<>>)

(***************************************************************************)
(* main: the responses it builds                                            *)
(***************************************************************************)
\* str(e)
StrOf(e) == e.text

\* the prefixes of the two f-strings (source lines 115 and 155), in English
JsonErrorPrefix == "JSON parse error: "
ErrorPrefix     == "error while checking: "

\* variant: the parse error is answered without a message
JsonErrorResult_noMessage(e) == [continue |-> TRUE]

\* lines 113-116
JsonErrorResult(e) == [continue |-> TRUE, user_message |-> JsonErrorPrefix \o StrOf(e)]
\* line 127
NoPromptResult == [continue |-> TRUE]
\* variant: the message is attached on both branches
DecideResult_alwaysMessage(has_sensitive, warning_msg) ==
    [continue |-> ~has_sensitive, user_message |-> warning_msg]

\* lines 136-144
DecideResult(has_sensitive, warning_msg) ==
    IF has_sensitive
    THEN [continue |-> FALSE, user_message |-> warning_msg]
    ELSE [continue |-> TRUE]
\* variant: the handler blocks
ErrorResult_deny(e) == [continue |-> FALSE, user_message |-> ErrorPrefix \o StrOf(e)]

\* lines 153-156
ErrorResult(e) == [continue |-> TRUE, user_message |-> ErrorPrefix \o StrOf(e)]

(***************************************************************************)
(* The input stream                                                         *)
(***************************************************************************)
PromptValues ==
    {PyStr(t) : t \in Texts} \cup
    {PyStr(<<>>), PyInt(0), PyInt(7), PyBool(FALSE), PyBool(TRUE), PyNone,
     PyList(<<>>), PyList(<<PyInt(1)>>), PyDict(EmptyDict),
     PyDict("k" :> PyInt(1))}

JsonValues ==
    {PyDict("prompt" :> v) : v \in PromptValues} \cup
    {PyDict(("prompt" :> PyStr(t)) @@ ("hook_event_name" :> PyStr(S("beforeSubmitPrompt")))) :
        t \in Examples \cup {<<>>}} \cup
    {PyDict(EmptyDict), PyDict("hook_event_name" :> PyStr(S("beforeSubmitPrompt"))),
     PyList(<<>>), PyList(<<PyInt(1)>>), PyStr(S("hello")), PyInt(0), PyInt(7),
     PyBool(TRUE), PyNone}

\* str(e) of the UnicodeDecodeError that decode raises, on the bytes FF and
\* on {"prompt": "E5 AF"}
DecodeErrors ==
    {"'utf-8' codec can't decode byte 0xff in position 0: invalid start byte",
     "'utf-8' codec can't decode bytes in position 12-13: invalid continuation byte"}

\* str(e) of the JSONDecodeError that json.loads raises, on the empty input
\* or hello, on {"prompt": (cut short) and on {"prompt": "x"} trailing
JsonErrors ==
    {"Expecting value: line 1 column 1 (char 0)",
     "Expecting value: line 1 column 12 (char 11)",
     "Extra data: line 1 column 17 (char 16)"}

\* str(e) of the RecursionError that json.loads raises on arrays and on
\* objects nested deeper than the recursion limit
RecursionErrors ==
    {"maximum recursion depth exceeded while decoding a JSON array from a unicode string",
     "maximum recursion depth exceeded while decoding a JSON object from a unicode string"}

\* what the bytes on stdin are: not UTF-8, UTF-8 but not JSON, JSON nested
\* deeper than the decoder's recursion limit (each with the text of the
\* exception the library raises on them), or a JSON document
Inputs ==
    {[kind |-> "invalid_utf8", value |-> PyNone, error |-> m] : m \in DecodeErrors}
    \cup {[kind |-> "malformed_json", value |-> PyNone, error |-> m] : m \in JsonErrors}
    \cup {[kind |-> "too_deep_json", value |-> PyNone, error |-> m] : m \in RecursionErrors}
    \cup {[kind |-> "json", value |-> v, error |-> ""] : v \in JsonValues}

\* what standard output is for the whole run.  device: a stream that takes
\* every write ("open"), no stream (sys.stdout is None, the descriptor is
\* closed), a full device, or a pipe without reader.  buffered: whether
\* sys.stdout.buffer is a BufferedWriter, where write fills the buffer and
\* flush pushes it out, or the raw file (python -u, PYTHONUNBUFFERED), where
\* write goes to the device at once and flush does nothing.
Out(device, buffered) == [device |-> device, buffered |-> buffered]

OpenStates == {Out("open", b) : b \in BOOLEAN}

OutStates ==
    OpenStates \cup {Out("none", TRUE)}
    \cup {Out(d, b) : d \in {"full", "broken_pipe"}, b \in BOOLEAN}

\* what the device answers to the bytes pushed to it
DeviceError(o) ==
    IF o.device = "full"
    THEN Exc("OSError", "[Errno 28] No space left on device")
    ELSE Exc("BrokenPipeError", "[Errno 32] Broken pipe")

\* does the write statement raise: sys.stdout is None, or the raw file
\* writes to a device that refuses
WriteRaises(o) ==
    \/ o.device = "none"
    \/ ~o.buffered /\ o.device \in {"full", "broken_pipe"}

\* what the write statement raises
WriteError(o) ==
    IF o.device = "none"
    THEN Exc("AttributeError", "'NoneType' object has no attribute 'buffer'")
    ELSE DeviceError(o)

\* does flush raise: the buffer is pushed to a device that refuses
FlushRaises(o) == o.buffered /\ o.device \in {"full", "broken_pipe"}

\* what flush raises
FlushError(o) == DeviceError(o)

\* what data.get raises when data is not a dict
GetAttributeError(d) ==
    Exc("AttributeError", "'" \o d.type \o "' object has no attribute 'get'")

(***************************************************************************)
(* main as a state machine, one process run                                 *)
(***************************************************************************)
VARIABLES
    input,          \* the bytes on stdin
    pc,             \* the statement main is at
    data,           \* json.loads result
    prompt,         \* data.get("prompt", "")
    checked,        \* what check_sensitive_info returned and called
    result,         \* the response being written
    path,           \* which of the four write statements writes result
    json_error,     \* the JSONDecodeError caught at line 111, or NoExc
    exc,            \* the exception caught at line 151, or NoExc
    uncaught,       \* the exception that left main, or NoExc
    out,            \* what standard output is, see OutStates
    stdout,         \* the responses sys.stdout.buffer.write accepted
    flushed         \* how many of them a flush has pushed out

vars == <<input, pc, data, prompt, checked, result, path, json_error, exc,
          uncaught, out, stdout, flushed>>

NotChecked == [raised |-> NoExc, has_sensitive |-> FALSE, warning_msg |-> "",
               called |-> <<>>]

InitOn(outs) ==
    /\ input \in Inputs
    /\ out \in outs
    /\ uncaught = NoExc
    /\ pc = "read"
    /\ data = PyNone
    /\ prompt = PyNone
    /\ checked = NotChecked
    /\ result = [continue |-> TRUE]
    /\ path = "none"
    /\ json_error = NoExc
    /\ exc = NoExc
    /\ stdout = <<>>
    /\ flushed = 0

\* standard output takes every write and flush, buffered or not
Init == InitOn(OpenStates)

\* standard output is any of OutStates
InitIO == InitOn(OutStates)

\* variant: no handler, the exception leaves main
Raise_propagates(e) ==
    /\ exc' = exc
    /\ uncaught' = e
    /\ pc' = "raised"

\* an exception raised inside the try block reaches line 151
Raise(e) ==
    /\ exc' = e
    /\ uncaught' = uncaught
    /\ pc' = "except"

\* line 106: sys.stdin.buffer.read().decode('utf-8')
Read ==
    /\ pc = "read"
    /\ IF input.kind = "invalid_utf8"
       THEN Raise(Exc("UnicodeDecodeError", input.error))
       ELSE pc' = "parse" /\ UNCHANGED <<exc, uncaught>>
    /\ UNCHANGED <<input, data, prompt, checked, result, path, json_error,
                   out, stdout, flushed>>

\* lines 109-112: json.loads
Parse ==
    /\ pc = "parse"
    /\ CASE input.kind = "malformed_json" ->
              /\ json_error' = Exc("JSONDecodeError", input.error)
              /\ pc' = "json_error"
              /\ UNCHANGED <<data, exc, uncaught>>
         [] input.kind = "too_deep_json" ->
              /\ Raise(Exc("RecursionError", input.error))
              /\ UNCHANGED <<data, json_error>>
         [] input.kind = "json" ->
              /\ data' = input.value
              /\ pc' = "get_prompt"
              /\ UNCHANGED <<json_error, exc, uncaught>>
    /\ UNCHANGED <<input, prompt, checked, result, path, out, stdout, flushed>>

\* lines 113-117: the response to a JSON parse error
JsonError ==
    /\ pc = "json_error"
    /\ result' = JsonErrorResult(json_error)
    /\ path' = "json_error"
    /\ pc' = "write"
    /\ UNCHANGED <<input, data, prompt, checked, json_error, exc, uncaught,
                   out, stdout, flushed>>

\* line 123: data.get("prompt", ""); only a dict has get
GetPrompt ==
    /\ pc = "get_prompt"
    /\ IF data.type = "dict"
       THEN /\ prompt' = dict_get(data, "prompt", PyStr(<<>>))
            /\ pc' = "test_prompt"
            /\ UNCHANGED <<exc, uncaught>>
       ELSE /\ Raise(GetAttributeError(data))
            /\ prompt' = prompt
    /\ UNCHANGED <<input, data, checked, result, path, json_error, out, stdout,
                   flushed>>

\* lines 125-128: if not prompt
TestPrompt ==
    /\ pc = "test_prompt"
    /\ IF ~Truthy(prompt)
       THEN /\ result' = NoPromptResult
            /\ path' = "no_prompt"
            /\ pc' = "write"
       ELSE /\ pc' = "check"
            /\ UNCHANGED <<result, path>>
    /\ UNCHANGED <<input, data, prompt, checked, json_error, exc, uncaught,
                   out, stdout, flushed>>

\* line 134: has_sensitive, warning_msg = check_sensitive_info(prompt)
Check ==
    /\ pc = "check"
    /\ checked' = check_sensitive_info(prompt)
    /\ IF checked'.raised # NoExc
       THEN Raise(checked'.raised)
       ELSE pc' = "decide" /\ UNCHANGED <<exc, uncaught>>
    /\ UNCHANGED <<input, data, prompt, result, path, json_error, out, stdout,
                   flushed>>

\* lines 136-147
Decide ==
    /\ pc = "decide"
    /\ result' = DecideResult(checked.has_sensitive, checked.warning_msg)
    /\ path' = "checked"
    /\ pc' = "write"
    /\ UNCHANGED <<input, data, prompt, checked, json_error, exc, uncaught,
                   out, stdout, flushed>>

\* lines 151-157: except Exception
Except ==
    /\ pc = "except"
    /\ result' = ErrorResult(exc)
    /\ path' = "except"
    /\ pc' = "write"
    /\ UNCHANGED <<input, data, prompt, checked, json_error, exc, uncaught,
                   out, stdout, flushed>>

\* lines 118, 129, 148, 158: sys.stdout.buffer.write(output.encode('utf-8'))
Write ==
    /\ pc = "write"
    /\ ~WriteRaises(out)
    /\ stdout' = Append(stdout, result)
    /\ flushed' = IF out.buffered THEN flushed ELSE Len(stdout')
    /\ pc' = "flush"
    /\ UNCHANGED <<input, data, prompt, checked, result, path, json_error, exc,
                   uncaught, out>>

\* lines 119, 130, 149, 159: sys.stdout.buffer.flush(), then main returns
Flush ==
    /\ pc = "flush"
    /\ ~FlushRaises(out)
    /\ flushed' = Len(stdout)
    /\ pc' = "returned"
    /\ UNCHANGED <<input, data, prompt, checked, result, path, json_error, exc,
                   uncaught, out, stdout>>

\* the write statement raises (sys.stdout is None, or the raw file writes to
\* a full device or a pipe without reader): inside the try block the
\* exception reaches line 151, inside the except block it leaves main
WriteFails ==
    /\ pc = "write"
    /\ WriteRaises(out)
    /\ IF path = "except"
       THEN pc' = "raised" /\ uncaught' = WriteError(out) /\ exc' = exc
       ELSE Raise(WriteError(out))
    /\ UNCHANGED <<input, data, prompt, checked, result, path, json_error,
                   out, stdout, flushed>>

\* flush raises after the buffer has accepted the response: the device is
\* full or the pipe has no reader
FlushFails ==
    /\ pc = "flush"
    /\ FlushRaises(out)
    /\ IF path = "except"
       THEN pc' = "raised" /\ uncaught' = FlushError(out) /\ exc' = exc
       ELSE Raise(FlushError(out))
    /\ UNCHANGED <<input, data, prompt, checked, result, path, json_error,
                   out, stdout, flushed>>

\* the steps of a run whose standard output takes every write and flush
Next ==
    \/ Read \/ Parse \/ JsonError \/ GetPrompt \/ TestPrompt \/ Check
    \/ Decide \/ Except \/ Write \/ Flush

Spec == Init /\ [][Next]_vars

\* a run on any standard output
NextIO == Next \/ WriteFails \/ FlushFails

SpecIO == InitIO /\ [][NextIO]_vars

(***************************************************************************)
(* Vocabulary of the properties                                             *)
(***************************************************************************)
Last(q) == q[Len(q)]

HasMessage(r) == "user_message" \in DOMAIN r

StartsWith(m, prefix) ==
    Len(m) >= Len(prefix) /\ SubSeq(m, 1, Len(prefix)) = prefix

\* the prompt is a str with at least one character
StrPrompt == prompt.type = "str" /\ Len(prompt.val) > 0

\* the order of the battery and each detector's warning, as the
\* specification lists them
Battery == <<"detect_api_key", "detect_password", "detect_secret_key",
             "detect_credentials", "detect_email_password">>
WarningOf == <<WarnApiKey, WarnPassword, WarnSecretKey, WarnCredentials,
               WarnEmailPassword>>

Firing(text) == {k \in 1..Len(Battery) : Call(Battery[k], text)}
First(F) == CHOOSE k \in F : \A j \in F : k <= j

\* the input makes a statement of main raise something other than a JSON
\* parse error: bytes that are not UTF-8, a document nested too deep, a
\* document that is not an object, a truthy prompt that is not a str
FailureOf(in) ==
    CASE in.kind = "invalid_utf8"   -> "UnicodeDecodeError"
      [] in.kind = "too_deep_json"  -> "RecursionError"
      [] in.kind = "malformed_json" -> "none"
      [] in.value.type # "dict"     -> "AttributeError"
      [] "prompt" \notin DOMAIN in.value.val -> "none"
      [] in.value.val["prompt"].type # "str" /\ Truthy(in.value.val["prompt"])
                                    -> "TypeError"
      [] OTHER                      -> "none"

\* the parsed object has no prompt field, or its prompt is the empty string
NoPrompt(in) ==
    /\ in.kind = "json"
    /\ in.value.type = "dict"
    /\ \/ "prompt" \notin DOMAIN in.value.val
       \/ /\ in.value.val["prompt"].type = "str"
          /\ Len(in.value.val["prompt"].val) = 0

\* A label followed by an assignment and a value, read off the sentence of
\* the specification: the label in any letter case at some position, then
\* optional white space, ':' or '=', optional white space, an optional
\* quote, and a run of value characters.
ToLower(c) == IF c \in Upper THEN c + 32 ELSE c

LabelAt(text, i, label) ==
    /\ i + Len(label) - 1 <= Len(text)
    /\ \A k \in 1..Len(label) : ToLower(text[i + k - 1]) = label[k]

RECURSIVE SkipSpace(_, _)
SkipSpace(text, i) ==
    IF i <= Len(text) /\ text[i] \in Space THEN SkipSpace(text, i + 1) ELSE i

\* a value character: of a key, [A-Za-z0-9_-]; of a password, anything but
\* white space and quotes
ValueChar(kind, c) ==
    IF kind = "key" THEN c \in KeyChar ELSE c \notin (Space \cup Quote)

RECURSIVE ValueRun(_, _, _)
ValueRun(text, i, kind) ==
    IF i <= Len(text) /\ ValueChar(kind, text[i])
    THEN 1 + ValueRun(text, i + 1, kind)
    ELSE 0

\* length of the value assigned right after position i - 1, -1 if there is
\* no assignment there
AssignedLen(text, i, kind) ==
    LET a == SkipSpace(text, i) IN
    IF a > Len(text) \/ text[a] \notin Assign THEN -1
    ELSE LET b == SkipSpace(text, a + 1)
             c == IF b <= Len(text) /\ text[b] \in Quote THEN b + 1 ELSE b
         IN ValueRun(text, c, kind)

Assigns(text, label, kind, min) ==
    \E i \in 1..Len(text) :
        /\ LabelAt(text, i, label)
        /\ AssignedLen(text, i + Len(label), kind) >= min

(***************************************************************************)
(* Properties                                                               *)
(***************************************************************************)

\* C1: a response with continue = false is written only when the prompt is a
\* non-empty string on which at least one of the five detectors returns
\* true; every response written on any other input, and on every internal
\* failure (a failing write or flush included), has continue = true.
C1_DenyOnlyOnDetection ==
    \A k \in 1..Len(stdout) :
        stdout[k].continue = FALSE =>
            /\ input.kind = "json"
            /\ input.value.type = "dict"
            /\ StrPrompt
            /\ Firing(prompt.val) # {}
            /\ checked.has_sensitive

\* C1 witness: a run denied the prompt, and the deny is on standard output
C1_Witness ==
    /\ pc = "returned"
    /\ Len(stdout) = 1
    /\ stdout[1].continue = FALSE
    /\ StrPrompt

\* C2: check_sensitive_info calls the detectors in the order API key,
\* password, secret/token, credentials, e-mail+password and stops at the
\* first that fires, returning deny with that detector's warning; when none
\* fires it has called all five and returns allow with the empty message.
C2_FirstMatchWins ==
    (pc = "decide" /\ StrPrompt) =>
        LET F == Firing(prompt.val) IN
        IF F = {}
        THEN /\ checked.has_sensitive = FALSE
             /\ checked.warning_msg = ""
             /\ checked.called = Battery
        ELSE /\ checked.has_sensitive = TRUE
             /\ checked.warning_msg = WarningOf[First(F)]
             /\ checked.called = SubSeq(Battery, 1, First(F))

\* C2 witness: the password detector fired second, the credentials detector
\* would have fired too and was not called
C2_Witness ==
    /\ pc = "decide"
    /\ StrPrompt
    /\ checked.warning_msg = WarnPassword
    /\ checked.called = <<"detect_api_key", "detect_password">>
    /\ detect_credentials(prompt.val)

\* C3: when the parsed object has no prompt field or an empty prompt, main
\* writes exactly {continue: true}, without user_message, and calls no
\* detector.
C3_NoPromptAllows ==
    NoPrompt(input) =>
        /\ checked.called = <<>>
        /\ \A k \in 1..Len(stdout) : stdout[k] = [continue |-> TRUE]
        /\ pc = "returned" => Len(stdout) = 1

\* C3 witness: a run on an object without prompt field has returned
C3_Witness ==
    /\ pc = "returned"
    /\ NoPrompt(input)
    /\ "prompt" \notin DOMAIN data.val
    /\ stdout = <<[continue |-> TRUE]>>

\* C4: when the input is UTF-8 but not JSON, main writes continue = true
\* with a non-empty user_message naming a JSON parse error, calls no
\* detector and returns without entering the handler of line 151.
C4_JsonErrorAllows ==
    input.kind = "malformed_json" =>
        /\ checked.called = <<>>
        /\ exc = NoExc
        /\ pc \notin {"except", "raised"}
        /\ \A k \in 1..Len(stdout) :
              /\ stdout[k].continue = TRUE
              /\ HasMessage(stdout[k])
              /\ StartsWith(stdout[k].user_message, JsonErrorPrefix)
              /\ Len(stdout[k].user_message) > Len(JsonErrorPrefix)
        /\ pc = "returned" => Len(stdout) = 1

\* C4 witness: a run on malformed JSON has returned
C4_Witness ==
    /\ pc = "returned"
    /\ input.kind = "malformed_json"
    /\ json_error.type = "JSONDecodeError"
    /\ Len(stdout) = 1

\* C5: a failure other than a JSON parse error (bytes that are not UTF-8, a
\* parsed value that is not an object, a truthy prompt that is not a str) is
\* caught at line 151 and answered with continue = true and a user_message
\* describing it; it does not leave main.
C5_FailuresCaught ==
    /\ pc # "raised"
    /\ uncaught = NoExc
    /\ exc # NoExc => exc.type = FailureOf(input)
    /\ (FailureOf(input) # "none" /\ pc \in {"write", "flush", "returned"}) =>
          /\ exc.type = FailureOf(input)
          /\ Len(StrOf(exc)) > 0
          /\ path = "except"
          /\ result.continue = TRUE
          /\ HasMessage(result)
          /\ result.user_message = ErrorPrefix \o StrOf(exc)
    /\ (FailureOf(input) # "none" /\ pc = "returned") => stdout = <<result>>

\* C5 witness: a detector raised on a prompt that is not a str, and the run
\* returned
C5_Witness ==
    /\ pc = "returned"
    /\ exc.type = "TypeError"
    /\ checked.called = <<"detect_api_key">>
    /\ Len(stdout) = 1

\* C6: on every path main returns normally having written exactly one JSON
\* object with a boolean continue field, never zero and never two, also when
\* a write or flush of the first response fails.
C6_ExactlyOneResponse ==
    pc \in {"returned", "raised"} =>
        /\ pc = "returned"
        /\ Len(stdout) = 1
        /\ stdout[1].continue \in BOOLEAN

\* C7: a response with continue = false carries one of the five warnings; a
\* response with continue = true carries a user_message exactly on the JSON
\* parse error path and on the failure path, and none when the prompt is
\* absent, empty or matched by no detector.
C7_MessageWhenNeeded ==
    \A k \in 1..Len(stdout) :
        LET r == stdout[k] IN
        IF r.continue
        THEN HasMessage(r) <=>
                (input.kind = "malformed_json" \/ FailureOf(input) # "none")
        ELSE /\ HasMessage(r)
             /\ Len(r.user_message) > 0
             /\ \E j \in 1..Len(WarningOf) : r.user_message = WarningOf[j]

\* C7 witness: a non-empty prompt matched by no detector was allowed with no
\* message
C7_Witness ==
    /\ pc = "returned"
    /\ StrPrompt
    /\ Firing(prompt.val) = {}
    /\ stdout = <<[continue |-> TRUE]>>

\* C8: the password detector fires exactly on the texts where one of the
\* labels password, pwd, pass (in any mix of cases) or U+5BC6 U+78BC is
\* followed by an assignment and a value of at least 6 characters that are
\* neither white space nor quotes.
C8_PasswordAnyCase ==
    (pc = "decide" /\ StrPrompt) =>
        (detect_password(prompt.val) <=>
            \E l \in {S("password"), S("pwd"), S("pass"), MiMa} :
                Assigns(prompt.val, l, "password", 6))

\* C9 as stated: the secret/token detector fires when secret, or secret key
\* spelled with a space, an underscore or a hyphen, is assigned a value of
\* at least 16 characters of [A-Za-z0-9_-], or token one of at least 20; it
\* does not fire when no such label has a value of its minimum length.
C9_SecretKeySpaced ==
    (pc = "decide" /\ StrPrompt) =>
        /\ (\/ \E l \in {S("secret"), S("secret key"), S("secret_key"),
                         S("secret-key")} :
                  Assigns(prompt.val, l, "key", 16)
            \/ Assigns(prompt.val, S("token"), "key", 20))
              => detect_secret_key(prompt.val)
        /\ detect_secret_key(prompt.val) =>
              \/ \E l \in {S("secret"), S("secretkey"), S("secret key"),
                           S("secret_key"), S("secret-key")} :
                    Assigns(prompt.val, l, "key", 16)
              \/ Assigns(prompt.val, S("token"), "key", 20)

\* C9 amended: the secret/token detector fires exactly on the texts where
\* secret, or secret key spelled secretkey, secret_key or secret-key, in any
\* letter case, is followed by optional white space, ':' or '=', optional
\* white space, an optional quote and at least 16 characters of
\* [A-Za-z0-9_-], or token likewise by at least 20.
C9_SecretKeyJoined ==
    (pc = "decide" /\ StrPrompt) =>
        (detect_secret_key(prompt.val) <=>
            \/ \E l \in {S("secret"), S("secretkey"), S("secret_key"),
                         S("secret-key")} :
                  Assigns(prompt.val, l, "key", 16)
            \/ Assigns(prompt.val, S("token"), "key", 20))

\* C9 witness: the secret/token detector was called and fired on a
\* secret-key label written in capitals
C9_Witness ==
    /\ pc = "decide"
    /\ StrPrompt
    /\ checked.warning_msg = WarnSecretKey
    /\ Last(checked.called) = "detect_secret_key"
    /\ Assigns(prompt.val, S("secret-key"), "key", 16)

\* C10: whenever the e-mail+password detector fires the password detector
\* fires too, so the e-mail+password warning is never returned by
\* check_sensitive_info nor written by main: such a text is denied with the
\* password warning or an earlier detector's.
C10_EmailWarningNeverReturned ==
    /\ checked.warning_msg # WarnEmailPassword
    /\ \A k \in 1..Len(stdout) :
          HasMessage(stdout[k]) => stdout[k].user_message # WarnEmailPassword
    /\ (pc = "decide" /\ StrPrompt /\ detect_email_password(prompt.val)) =>
          /\ detect_password(prompt.val)
          /\ checked.has_sensitive
          /\ checked.warning_msg \in {WarnApiKey, WarnPassword}

\* C10 witness: a text with an e-mail address and a password assignment was
\* denied with the password warning
C10_Witness ==
    /\ pc = "returned"
    /\ StrPrompt
    /\ detect_email_password(prompt.val)
    /\ stdout = <<[continue |-> FALSE, user_message |-> WarnPassword]>>

====
